---- MODULE Spec2Model ----
\* A model of asrel.py: the loader of CAIDA's AS relationship feed
\* (ASRelationshipsDB.__init__ and its four line parsers) and the two lookups
\* (__getitem__, get).  Lines are sequences of one-character strings, and the
\* regular expressions, str.strip, str.split and int() of the source are
\* modelled on those sequences.  The source is Python 2: gzip.open(fn, 'r')
\* yields str lines, and assert statements are executed (no -O).
EXTENDS Integers, Sequences, FiniteSets, TLC

\* ---------------------------------------------------------------- constants
P2C == -1
P2P == 0
C2P == 1

\* assert len(self.pair2rel) > 1000
MinPairs == 1000

\* ------------------------------------------------------------------- bounds
\* The feed: a block of generated relationship lines followed by at most
\* MaxTail lines drawn from the alphabet Lines.
MaxTail == 4

\* ------------------------------------------------------- characters, strings
DigitSeq == <<"0", "1", "2", "3", "4", "5", "6", "7", "8", "9">>
Digit == {DigitSeq[i] : i \in 1..10}
\* the characters str.strip() and \s treat as whitespace
White == {" ", "\t", "\n", "\r"}

DigitVal(c) == (CHOOSE i \in 1..10 : DigitSeq[i] = c) - 1

AllIn(s, S) == \A i \in 1..Len(s) : s[i] \in S

StartsWith(s, p) == Len(s) >= Len(p) /\ SubSeq(s, 1, Len(p)) = p

\* str.strip(): drop leading and trailing whitespace
strip(s) ==
    LET keep == {i \in 1..Len(s) : s[i] \notin White}
    IN  IF keep = {} THEN <<>>
        ELSE LET lo == CHOOSE i \in keep : \A j \in keep : i <= j
                 hi == CHOOSE i \in keep : \A j \in keep : i >= j
             IN  SubSeq(s, lo, hi)

\* the k-th smallest member of a set of integers, k >= 1
Kth(S, k) == CHOOSE i \in S : Cardinality({j \in S : j < i}) = k - 1

\* str.split(sep) for a one-character separator: the fields between
\* separators, empty fields kept
split(s, sep) ==
    LET at == {i \in 1..Len(s) : s[i] = sep}
        n == Cardinality(at)
        from(k) == IF k = 1 THEN 1 ELSE Kth(at, k - 1) + 1
        to(k) == IF k = n + 1 THEN Len(s) ELSE Kth(at, k) - 1
    IN  [k \in 1..(n + 1) |-> SubSeq(s, from(k), to(k))]

\* str.split() without argument: the maximal runs of non-whitespace
splitws(s) ==
    LET first == {i \in 1..Len(s) :
                     s[i] \notin White /\ (i = 1 \/ s[i - 1] \in White)}
        last == {i \in 1..Len(s) :
                    s[i] \notin White /\ (i = Len(s) \/ s[i + 1] \in White)}
    IN  [k \in 1..Cardinality(first) |-> SubSeq(s, Kth(first, k), Kth(last, k))]

\* the value of a string of decimal digits
DigitsVal(s) ==
    LET val[k \in 0..Len(s)] ==
            IF k = 0 THEN 0 ELSE 10 * val[k - 1] + DigitVal(s[k])
    IN  val[Len(s)]

\* int(s): surrounding whitespace is ignored, one optional sign, then one or
\* more digits; anything else raises ValueError (ok = FALSE)
Unsigned(t) == IF t # <<>> /\ t[1] \in {"-", "+"} THEN SubSeq(t, 2, Len(t)) ELSE t

Literal(t, body) ==
    IF body = <<>> \/ ~AllIn(body, Digit) THEN [ok |-> FALSE, val |-> 0]
    ELSE [ok |-> TRUE,
          val |-> IF t[1] = "-" THEN 0 - DigitsVal(body) ELSE DigitsVal(body)]

Stripped(t) == Literal(t, Unsigned(t))

int(s) == Stripped(strip(s))

\* '%d' % n for n >= 0
RECURSIVE fmt(_)
fmt(n) ==
    IF n < 10 THEN <<DigitSeq[n + 1]>>
    ELSE fmt(n \div 10) \o <<DigitSeq[(n % 10) + 1]>>

\* ------------------------------------------------------------ python values
\* What a lookup hands back: an int, None, or a raised KeyError with its
\* message.  All three have the same fields.
PyInt(n) == [kind |-> "int", val |-> n, msg |-> <<>>]
PyNone == [kind |-> "None", val |-> 0, msg |-> <<>>]
KeyError(m) == [kind |-> "KeyError", val |-> 0, msg |-> m]

\* no exception pending
NoExc == "none"

\* ------------------------------------------------------------- the parsers
\* Every parser returns [ret, exc, val]: ret is the parser's return value
\* (did the line match), exc the exception it raised (NoExc if none), val the
\* container it writes, after the call.
Result(ret, exc, val) == [ret |-> ret, exc |-> exc, val |-> val]

SourcePrefix == <<"#", " ", "s", "o", "u", "r", "c", "e", ":">>
CliquePrefix == <<"#", " ", "i", "n", "f", "e", "r", "r", "e", "d", " ", "c", "l", "i", "q", "u", "e", ":", " ">>
IxpsPrefix == <<"#", " ", "I", "X", "P", " ", "A", "S", "e", "s", ":", " ">>
Topology == <<"t", "o", "p", "o", "l", "o", "g", "y">>
BGP == <<"B", "G", "P">>

\* namedtuple('DataSource', ['dtype', 'proto', 'date', 'feed', 'collector'])
DataSource(f) ==
    [dtype |-> f[1], proto |-> f[2], date |-> f[3], feed |-> f[4],
     collector |-> f[5]]

\* re.match(prefix + r'([\d\s]+)$', line): the group, or <<>> for no match
\* (a matching group is never empty)
ListGroup(line, prefix) ==
    LET g == SubSeq(line, Len(prefix) + 1, Len(line))
    IN  IF StartsWith(line, prefix) /\ g # <<>> /\ AllIn(g, Digit \cup White)
        THEN g ELSE <<>>

\* set(int(asn) for asn in group.split())
AsnSet(g) == LET f == splitws(g) IN {int(f[i]).val : i \in 1..Len(f)}

\* src = DataSource(*fields) and the three assertions on it, date = int(src.date)
CheckDate(f, date, srcs) ==
    IF ~date.ok THEN Result(FALSE, "ValueError:55", srcs)
    ELSE IF ~(date.val > 0) THEN Result(FALSE, "AssertionError:55", srcs)
    ELSE Result(TRUE, NoExc, srcs \cup {DataSource(f)})

CheckSource(f, srcs) ==
    IF Len(f) # 5 THEN Result(FALSE, "TypeError:52", srcs)
    ELSE IF f[1] # Topology THEN Result(FALSE, "AssertionError:53", srcs)
    ELSE IF f[2] # BGP THEN Result(FALSE, "AssertionError:54", srcs)
    ELSE CheckDate(f, int(f[3]), srcs)

_parse_source(line, srcs) ==
    IF ~StartsWith(line, SourcePrefix) THEN Result(FALSE, NoExc, srcs)
    ELSE CheckSource(split(SubSeq(line, Len(SourcePrefix) + 1, Len(line)), "|"),
                     srcs)

\* a fault: the new members are merged into the old set
_parse_clique_merge(line, cur) ==
    LET g == ListGroup(line, CliquePrefix)
    IN  IF g = <<>> THEN Result(FALSE, NoExc, cur)
        ELSE Result(TRUE, NoExc, cur \cup AsnSet(g))

_parse_clique(line, cur) ==
    LET g == ListGroup(line, CliquePrefix)
    IN  IF g = <<>> THEN Result(FALSE, NoExc, cur)
        ELSE Result(TRUE, NoExc, AsnSet(g))

_parse_ixps(line, cur) ==
    LET g == ListGroup(line, IxpsPrefix)
    IN  IF g = <<>> THEN Result(FALSE, NoExc, cur)
        ELSE Result(TRUE, NoExc, AsnSet(g))

\* _relationship_regexp = re.compile(r'^(\d+)\|(\d+)\|([0-9-]+)$'), on the
\* fields between the bars: the groups, or <<>> for no match
Groups(f) ==
    IF /\ Len(f) = 3
       /\ \A i \in 1..3 : f[i] # <<>>
       /\ AllIn(f[1], Digit)
       /\ AllIn(f[2], Digit)
       /\ AllIn(f[3], Digit \cup {"-"})
    THEN f ELSE <<>>

_relationship_regexp(line) == Groups(split(line, "|"))

\* a fault: C2P is accepted from the feed
AnyCode == {P2C, P2P, C2P}

_relationship_valid == {P2C, P2P}

\* a fault: the key is put in ascending order before it is stored
SetItemSorted(p2r, pair, rel) ==
    (IF pair[1] <= pair[2] THEN pair :> rel ELSE <<pair[2], pair[1]>> :> rel)
        @@ p2r

\* self.pair2rel[(as1, as2)] = rel
SetItem(p2r, pair, rel) == (pair :> rel) @@ p2r

\* as1, as2, rel = tuple(int(i) for i in m.groups()), then the assertion
Store(as1, as2, rel, p2r) ==
    IF ~rel.ok THEN Result(FALSE, "ValueError:77", p2r)
    ELSE IF rel.val \notin _relationship_valid
    THEN Result(FALSE, "AssertionError:78", p2r)
    ELSE Result(TRUE, NoExc, SetItem(p2r, <<as1.val, as2.val>>, rel.val))

Matched(m, p2r) ==
    IF m = <<>> THEN Result(FALSE, NoExc, p2r)
    ELSE Store(int(m[1]), int(m[2]), int(m[3]), p2r)

_parse_relationship(line, p2r) == Matched(_relationship_regexp(line), p2r)

\* ----------------------------------------------------- the feed's alphabet
\* a provenance line
LSource1 == <<"#", " ", "s", "o", "u", "r", "c", "e", ":", "t", "o", "p", "o", "l", "o", "g", "y", "|", "B", "G", "P", "|", "2", "0", "1", "3", "0", "8", "0", "1", "|", "f", "|", "r", "v">>
\* a second provenance record
LSource2 == <<"#", " ", "s", "o", "u", "r", "c", "e", ":", "t", "o", "p", "o", "l", "o", "g", "y", "|", "B", "G", "P", "|", "7", "|", "f", "|", "r", "i", "s">>
\* data kind is not topology
LSourceKind == <<"#", " ", "s", "o", "u", "r", "c", "e", ":", "l", "a", "t", "e", "n", "c", "y", "|", "B", "G", "P", "|", "7", "|", "f", "|", "r", "v">>
\* protocol is not BGP
LSourceProto == <<"#", " ", "s", "o", "u", "r", "c", "e", ":", "t", "o", "p", "o", "l", "o", "g", "y", "|", "O", "S", "P", "F", "|", "7", "|", "f", "|", "r", "v">>
\* date is zero
LSourceZero == <<"#", " ", "s", "o", "u", "r", "c", "e", ":", "t", "o", "p", "o", "l", "o", "g", "y", "|", "B", "G", "P", "|", "0", "|", "f", "|", "r", "v">>
\* date is negative
LSourceNeg == <<"#", " ", "s", "o", "u", "r", "c", "e", ":", "t", "o", "p", "o", "l", "o", "g", "y", "|", "B", "G", "P", "|", "-", "7", "|", "f", "|", "r", "v">>
\* date is no integer
LSourceText == <<"#", " ", "s", "o", "u", "r", "c", "e", ":", "t", "o", "p", "o", "l", "o", "g", "y", "|", "B", "G", "P", "|", "x", "|", "f", "|", "r", "v">>
\* four fields
LSourceShort == <<"#", " ", "s", "o", "u", "r", "c", "e", ":", "t", "o", "p", "o", "l", "o", "g", "y", "|", "B", "G", "P", "|", "7", "|", "f">>
\* clique {1, 2}
LClique12 == <<"#", " ", "i", "n", "f", "e", "r", "r", "e", "d", " ", "c", "l", "i", "q", "u", "e", ":", " ", "1", " ", "2">>
\* clique {2, 3}, extra blanks
LClique23 == <<"#", " ", "i", "n", "f", "e", "r", "r", "e", "d", " ", "c", "l", "i", "q", "u", "e", ":", " ", "2", " ", " ", "3", " ">>
\* not a clique line: a comment
LCliqueBad == <<"#", " ", "i", "n", "f", "e", "r", "r", "e", "d", " ", "c", "l", "i", "q", "u", "e", ":", " ", "1", " ", "x">>
\* exchange points {4, 5}
LIxps45 == <<"#", " ", "I", "X", "P", " ", "A", "S", "e", "s", ":", " ", "4", " ", "5">>
\* exchange points {5}
LIxps5 == <<"#", " ", "I", "X", "P", " ", "A", "S", "e", "s", ":", " ", "5">>
LRel12c == <<"1", "|", "2", "|", "-", "1">>
\* leading blank, stripped
LRel12p == <<" ", "1", "|", "2", "|", "0">>
LRel21c == <<"2", "|", "1", "|", "-", "1">>
LRel21p == <<"2", "|", "1", "|", "0">>
\* a pair with as1 = as2
LRel11c == <<"1", "|", "1", "|", "-", "1">>
\* code +1
LRelC2P == <<"1", "|", "2", "|", "1">>
\* code 2
LRelTwo == <<"2", "|", "1", "|", "2">>
\* matches the regexp, int() refuses it
LRelDash == <<"1", "|", "2", "|", "-", "-", "1">>
\* two fields
LRelShort == <<"1", "|", "2">>
LComment == <<"#", " ", "a", " ", "c", "o", "m", "m", "e", "n", "t">>
LGarbage == <<"x">>
\* an empty line
LEmpty == <<>>

Lines ==
    {LSource1, LSource2, LSourceKind, LSourceProto, LSourceZero,
     LSourceNeg, LSourceText, LSourceShort, LClique12, LClique23,
     LCliqueBad, LIxps45, LIxps5, LRel12c, LRel12p,
     LRel21c, LRel21p, LRel11c, LRelC2P, LRelTwo,
     LRelDash, LRelShort, LComment, LGarbage, LEmpty}

\* The i-th line of the generated block, i >= 1: "i|i+1|-1" for odd i and
\* "i|i+1|0" for even i.  The block is delivered from its last line to its
\* first, so the block of length n is the lines n, n-1, ..., 1.
BulkLine(i) ==
    fmt(i) \o <<"|">> \o fmt(i + 1) \o <<"|">>
        \o (IF i % 2 = 1 THEN <<"-", "1">> ELSE <<"0">>)

\* lengths of the generated block
BulkLens == {0, MinPairs - 1, MinPairs + 1}

\* what the client asks about, and the defaults it passes to get()
QueryAS == {1, 2, 3}
Defaults == {PyNone, PyInt(7)}

\* -------------------------------------------------------------------- state
VARIABLES
    sources,    \* self.sources
    clique,     \* self.clique
    ixps,       \* self.ixps
    pair2rel,   \* self.pair2rel: a function from <<as1, as2>> to the code
    fd,         \* the stream of __init__: "open" or "closed"
    pc,         \* "loading", "ready" (__init__ returned), "failed" (it raised)
    exc,        \* the exception that left __init__, "Type:line"
    ret,        \* the last lookup: [op, pair, missing, out]
    bulkLeft,   \* lines of the generated block still to come
    tailLeft,   \* lines of the tail the feed may still deliver
    nRel,       \* relationship lines consumed so far
    nDup,       \* those among them whose pair was already a key
    cliqueLines, \* the clique lines consumed so far, in order
    ixpsLines    \* the exchange-point lines consumed so far, in order

vars == <<sources, clique, ixps, pair2rel, fd, pc, exc, ret, bulkLeft,
          tailLeft, nRel, nDup, cliqueLines, ixpsLines>>
containers == <<sources, clique, ixps, pair2rel>>
feed == <<bulkLeft, tailLeft>>
history == <<nRel, nDup, cliqueLines, ixpsLines>>

NoRet == [op |-> "none", pair |-> <<0, 0>>, missing |-> PyNone, out |-> PyNone]

\* self.sources = set() ... self.pair2rel = dict(); fd = gzip.open(fn, 'r')
Init ==
    /\ sources = {}
    /\ clique = {}
    /\ ixps = {}
    /\ pair2rel = <<>>
    /\ fd = "open"
    /\ pc = "loading"
    /\ exc = NoExc
    /\ ret = NoRet
    /\ bulkLeft \in BulkLens
    /\ tailLeft = MaxTail
    /\ nRel = 0
    /\ nDup = 0
    /\ cliqueLines = <<>>
    /\ ixpsLines = <<>>

\* One pass of the loop body on the raw line: which parser took the line
\* (kind), the exception raised, and the four containers afterwards.
Pass(kind, e, s, c, x, r) ==
    [kind |-> kind, exc |-> e, sources |-> s, clique |-> c, ixps |-> x,
     pair2rel |-> r]

\* a fault: a line of no shape is skipped whatever it starts with
CascadeLenient(line, s, c, x, r) ==
    IF s.exc # NoExc \/ s.ret
    THEN Pass("source", s.exc, s.val, clique, ixps, pair2rel)
    ELSE IF c.exc # NoExc \/ c.ret
    THEN Pass("clique", c.exc, sources, c.val, ixps, pair2rel)
    ELSE IF x.exc # NoExc \/ x.ret
    THEN Pass("ixps", x.exc, sources, clique, x.val, pair2rel)
    ELSE IF r.exc # NoExc \/ r.ret
    THEN Pass("relationship", r.exc, sources, clique, ixps, r.val)
    ELSE Pass("comment", NoExc, sources, clique, ixps, pair2rel)

\* if self._parse_source(line): continue ... assert line[0] == '#'
Cascade(line, s, c, x, r) ==
    IF s.exc # NoExc \/ s.ret
    THEN Pass("source", s.exc, s.val, clique, ixps, pair2rel)
    ELSE IF c.exc # NoExc \/ c.ret
    THEN Pass("clique", c.exc, sources, c.val, ixps, pair2rel)
    ELSE IF x.exc # NoExc \/ x.ret
    THEN Pass("ixps", x.exc, sources, clique, x.val, pair2rel)
    ELSE IF r.exc # NoExc \/ r.ret
    THEN Pass("relationship", r.exc, sources, clique, ixps, r.val)
    ELSE IF line = <<>>
    THEN Pass("none", "IndexError:40", sources, clique, ixps, pair2rel)
    ELSE IF line[1] # "#"
    THEN Pass("none", "AssertionError:40", sources, clique, ixps, pair2rel)
    ELSE Pass("comment", NoExc, sources, clique, ixps, pair2rel)

Classify(line) ==
    Cascade(line, _parse_source(line, sources), _parse_clique(line, clique),
            _parse_ixps(line, ixps), _parse_relationship(line, pair2rel))

\* line = line.strip(), then the cascade
iteration(raw) == Classify(strip(raw))

\* One line goes through the loop body.  An exception leaves __init__ at
\* once: fd.close() is not reached.
Commit(p) ==
    /\ exc' = p.exc
    /\ pc' = IF p.exc = NoExc THEN "loading" ELSE "failed"
    /\ sources' = p.sources
    /\ clique' = p.clique
    /\ ixps' = p.ixps
    /\ pair2rel' = p.pair2rel
    /\ UNCHANGED <<fd, ret>>

\* the ordered pair a relationship line names, as written on the line
Named(f) == <<int(f[1]).val, int(f[2]).val>>

PairOf(raw) == Named(split(strip(raw), "|"))

\* the bookkeeping of the lines consumed
Record(raw, p) ==
    /\ nRel' = IF p.kind = "relationship" /\ p.exc = NoExc
               THEN nRel + 1 ELSE nRel
    /\ nDup' = IF /\ p.kind = "relationship"
                  /\ p.exc = NoExc
                  /\ PairOf(raw) \in DOMAIN pair2rel
               THEN nDup + 1 ELSE nDup
    /\ cliqueLines' = IF p.kind = "clique" /\ p.exc = NoExc
                      THEN Append(cliqueLines, raw) ELSE cliqueLines
    /\ ixpsLines' = IF p.kind = "ixps" /\ p.exc = NoExc
                    THEN Append(ixpsLines, raw) ELSE ixpsLines

Both(raw, p) == Record(raw, p) /\ Commit(p)

Consume(raw) == Both(raw, iteration(raw))

\* the feed delivers the next line of the generated block
ReadBulk ==
    /\ pc = "loading"
    /\ bulkLeft > 0
    /\ Consume(BulkLine(bulkLeft))
    /\ bulkLeft' = bulkLeft - 1
    /\ UNCHANGED tailLeft

\* the feed delivers a line of the alphabet
ReadLine(raw) ==
    /\ pc = "loading"
    /\ bulkLeft = 0
    /\ tailLeft > 0
    /\ Consume(raw)
    /\ tailLeft' = tailLeft - 1
    /\ UNCHANGED bulkLeft

\* a fault: len(self.pair2rel) >= 1000
PostLoadAtLeast ==
    IF sources = {} THEN "AssertionError:43"
    ELSE IF clique = {} THEN "AssertionError:44"
    ELSE IF ixps = {} THEN "AssertionError:45"
    ELSE IF ~(Cardinality(DOMAIN pair2rel) >= MinPairs) THEN "AssertionError:46"
    ELSE NoExc

\* assert self.sources ... assert len(self.pair2rel) > 1000
PostLoad ==
    IF sources = {} THEN "AssertionError:43"
    ELSE IF clique = {} THEN "AssertionError:44"
    ELSE IF ixps = {} THEN "AssertionError:45"
    ELSE IF ~(Cardinality(DOMAIN pair2rel) > MinPairs) THEN "AssertionError:46"
    ELSE NoExc

\* the stream is exhausted: fd.close(), then the four assertions
EndOfStream ==
    /\ pc = "loading"
    /\ fd' = "closed"
    /\ exc' = PostLoad
    /\ pc' = IF PostLoad = NoExc THEN "ready" ELSE "failed"
    /\ UNCHANGED <<containers, ret, feed, history>>

\* ------------------------------------------------------------------ lookups
KeyErrorText == <<"u", "n", "k", "n", "o", "w", "n", " ", "r", "e", "l", "a", "t", "i", "o", "n", "s", "h", "i", "p", " ">>

\* a fault: the mirror's code is returned without the sign flip
__getitem__NoFlip(p2r, pair) ==
    IF pair \in DOMAIN p2r THEN PyInt(p2r[pair])
    ELSE LET swapped == <<pair[2], pair[1]>>
         IN  IF swapped \in DOMAIN p2r THEN PyInt(p2r[swapped])
             ELSE KeyError(KeyErrorText \o fmt(swapped[2]) \o <<"-">>
                           \o fmt(swapped[1]))

\* a fault: the message names the pair as swapped, not as queried
__getitem__Reversed(p2r, pair) ==
    IF pair \in DOMAIN p2r THEN PyInt(p2r[pair])
    ELSE LET swapped == <<pair[2], pair[1]>>
         IN  IF swapped \in DOMAIN p2r THEN PyInt(-1 * p2r[swapped])
             ELSE KeyError(KeyErrorText \o fmt(swapped[1]) \o <<"-">>
                           \o fmt(swapped[2]))

\* __getitem__(self, pair)
__getitem__(p2r, pair) ==
    IF pair \in DOMAIN p2r THEN PyInt(p2r[pair])
    ELSE LET swapped == <<pair[2], pair[1]>>
         IN  IF swapped \in DOMAIN p2r THEN PyInt(-1 * p2r[swapped])
             ELSE KeyError(KeyErrorText \o fmt(swapped[2]) \o <<"-">>
                           \o fmt(swapped[1]))

\* a fault: the KeyError is not caught
getStrict(p2r, pair, missing) == __getitem__(p2r, pair)

\* get(self, pair, missing=None)
get(p2r, pair, missing) ==
    LET r == __getitem__(p2r, pair)
    IN  IF r.kind = "KeyError" THEN missing ELSE r

\* a fault: a relationship found under the swapped key is stored under the
\* queried key as well
GetItemMemo(x, y) ==
    /\ pc = "ready"
    /\ ret' = [op |-> "getitem", pair |-> <<x, y>>, missing |-> PyNone,
               out |-> __getitem__(pair2rel, <<x, y>>)]
    /\ pair2rel' = IF <<x, y>> \notin DOMAIN pair2rel
                      /\ <<y, x>> \in DOMAIN pair2rel
                   THEN (<<x, y>> :> (0 - pair2rel[<<y, x>>])) @@ pair2rel
                   ELSE pair2rel
    /\ UNCHANGED <<sources, clique, ixps, fd, pc, exc, feed, history>>

\* db[x, y]
GetItem(x, y) ==
    /\ pc = "ready"
    /\ ret' = [op |-> "getitem", pair |-> <<x, y>>, missing |-> PyNone,
               out |-> __getitem__(pair2rel, <<x, y>>)]
    /\ UNCHANGED <<containers, fd, pc, exc, feed, history>>

\* db.get((x, y), missing)
Get(x, y, missing) ==
    /\ pc = "ready"
    /\ ret' = [op |-> "get", pair |-> <<x, y>>, missing |-> missing,
               out |-> get(pair2rel, <<x, y>>, missing)]
    /\ UNCHANGED <<containers, fd, pc, exc, feed, history>>

Next ==
    \/ ReadBulk
    \/ \E raw \in Lines : ReadLine(raw)
    \/ EndOfStream
    \/ \E x \in QueryAS, y \in QueryAS : GetItem(x, y)
    \/ \E x \in QueryAS, y \in QueryAS, missing \in Defaults : Get(x, y, missing)

Spec == Init /\ [][Next]_vars

\* ================================================================== claims
Swap(p) == <<p[2], p[1]>>
Stored(p) == p \in DOMAIN pair2rel
Size == Cardinality(DOMAIN pair2rel)

\* the lines of the alphabet, by what the feed's grammar makes of them
SourceLines == {LSource1, LSource2}
CliqueLines == {LClique12, LClique23}
IxpsLines == {LIxps45, LIxps5}
RelLines == {LRel12c, LRel12p, LRel21c, LRel21p, LRel11c}
CommentLines == {LComment, LCliqueBad}
\* (i) no shape and no '#'
MalformedNoShape == {LGarbage, LEmpty, LRelShort}
\* (ii) three fields and a code other than -1 and 0
MalformedCode == {LRelC2P, LRelTwo, LRelDash}
\* (iii) a provenance record the loader refuses
MalformedSource ==
    {LSourceKind, LSourceProto, LSourceZero, LSourceNeg, LSourceText,
     LSourceShort}
Malformed == MalformedNoShape \cup MalformedCode \cup MalformedSource

\* the integers written on a clique or exchange-point line
Members(l) ==
    CASE l = LClique12 -> {1, 2}
      [] l = LClique23 -> {2, 3}
      [] l = LIxps45 -> {4, 5}
      [] l = LIxps5 -> {5}

\* ----------------------------------------------------------------------- C1
\* C1 as claimed: after a successful load, for EVERY stored pair (a, b) with
\* code r, table[(a, b)] returns r and table[(b, a)] returns -r.
C1_SymmetryEveryPair ==
    (pc = "ready" /\ ret = NoRet) =>
        \A p \in DOMAIN pair2rel :
            /\ __getitem__(pair2rel, p) = PyInt(pair2rel[p])
            /\ __getitem__(pair2rel, Swap(p)) = PyInt(0 - pair2rel[p])

\* C1 as amended: after a successful load, for every stored pair (a, b) with
\* code r, table[(a, b)] returns r; table[(b, a)] returns -r when (b, a) is
\* not itself a key, and returns the code stored under (b, a), unchanged,
\* when it is (for a = b that code is r itself).  The stored pairs are all
\* examined when construction returns (no lookup changes the mapping, C10),
\* and every strict lookup made afterwards is held to the same rule.
C1_SymmetryUnlessMirrorStored ==
    /\ (pc = "ready" /\ ret = NoRet) =>
           \A p \in DOMAIN pair2rel :
               /\ __getitem__(pair2rel, p) = PyInt(pair2rel[p])
               /\ __getitem__(pair2rel, Swap(p)) =
                      IF Stored(Swap(p)) THEN PyInt(pair2rel[Swap(p)])
                      ELSE PyInt(0 - pair2rel[p])
    /\ (pc = "ready" /\ ret.op = "getitem") =>
           /\ Stored(ret.pair) => ret.out = PyInt(pair2rel[ret.pair])
           /\ (Stored(Swap(ret.pair)) /\ ~Stored(ret.pair))
                  => ret.out = PyInt(0 - pair2rel[Swap(ret.pair)])

\* a strict lookup of the mirror of a stored provider-customer pair gave +1
C1_Witness ==
    /\ pc = "ready"
    /\ ret.op = "getitem"
    /\ ~Stored(ret.pair)
    /\ Stored(Swap(ret.pair))
    /\ pair2rel[Swap(ret.pair)] = P2C
    /\ ret.out = PyInt(C2P)

\* ----------------------------------------------------------------------- C2
\* the three steps of the claim, the message naming the pair as queried
Reference(p2r, x, y) ==
    IF <<x, y>> \in DOMAIN p2r THEN PyInt(p2r[<<x, y>>])
    ELSE IF <<y, x>> \in DOMAIN p2r THEN PyInt(0 - p2r[<<y, x>>])
    ELSE KeyError(KeyErrorText \o fmt(x) \o <<"-">> \o fmt(y))

\* C2: a strict lookup table[(x, y)] returns the stored code of (x, y) if it
\* is a key, else the negated code of (y, x) if that is a key, else raises
\* KeyError with the message 'unknown relationship x-y', x and y in the order
\* of the query.
C2_StrictLookup ==
    ret.op = "getitem" =>
        ret.out = Reference(pair2rel, ret.pair[1], ret.pair[2])

\* a strict lookup of a pair absent in both orders, x # y, raised KeyError
C2_Witness ==
    /\ ret.op = "getitem"
    /\ ret.pair[1] # ret.pair[2]
    /\ ~Stored(ret.pair)
    /\ ~Stored(Swap(ret.pair))
    /\ ret.out.kind = "KeyError"

\* ----------------------------------------------------------------------- C3
\* C3: the tolerant lookup never raises: it returns what the strict lookup
\* returns when the pair is stored in either order, and the default it was
\* given when the pair is stored in neither.
C3_TolerantLookup ==
    ret.op = "get" =>
        /\ ret.out.kind # "KeyError"
        /\ (Stored(ret.pair) \/ Stored(Swap(ret.pair)))
               => ret.out = Reference(pair2rel, ret.pair[1], ret.pair[2])
        /\ (~Stored(ret.pair) /\ ~Stored(Swap(ret.pair)))
               => ret.out = ret.missing

\* a tolerant lookup of an absent pair returned the caller's default 7
C3_Witness ==
    /\ ret.op = "get"
    /\ ~Stored(ret.pair)
    /\ ~Stored(Swap(ret.pair))
    /\ ret.missing = PyInt(7)
    /\ ret.out = PyInt(7)

\* ----------------------------------------------------------------------- C4
PostLoadErrors ==
    {"AssertionError:43", "AssertionError:44", "AssertionError:45",
     "AssertionError:46"}

\* C4: once the stream is exhausted, construction returns exactly when the
\* three sets are non-empty and the mapping has more than MinPairs entries
\* (MinPairs entries are not enough), and fails otherwise; the four checks
\* are made only then, never while lines are being consumed.
C4_PostLoadChecks ==
    /\ fd = "closed" => pc \in {"ready", "failed"}
    /\ fd = "closed" =>
           (pc = "ready" <=>
                (sources # {} /\ clique # {} /\ ixps # {} /\ Size > 1000))
    /\ pc = "ready" => fd = "closed"
    /\ exc \in PostLoadErrors <=> (fd = "closed" /\ pc = "failed")

\* a feed with all three sets and exactly 1000 pairs failed the last check
C4_Witness ==
    /\ pc = "failed"
    /\ exc = "AssertionError:46"
    /\ sources # {}
    /\ clique # {}
    /\ ixps # {}
    /\ Size = 1000

\* ----------------------------------------------------------------------- C5
\* what the loop body makes of line l, p being its outcome
Kept(p) ==
    /\ p.sources = sources
    /\ p.clique = clique
    /\ p.ixps = ixps
    /\ p.pair2rel = pair2rel

Verdict(l, p) ==
    /\ l \in Malformed => (p.exc # NoExc /\ Kept(p))
    /\ l \in CommentLines => (p.exc = NoExc /\ p.kind = "comment" /\ Kept(p))
    /\ l \in SourceLines =>
           /\ p.exc = NoExc /\ p.kind = "source"
           /\ p.clique = clique /\ p.ixps = ixps /\ p.pair2rel = pair2rel
    /\ l \in CliqueLines =>
           /\ p.exc = NoExc /\ p.kind = "clique"
           /\ p.sources = sources /\ p.ixps = ixps /\ p.pair2rel = pair2rel
    /\ l \in IxpsLines =>
           /\ p.exc = NoExc /\ p.kind = "ixps"
           /\ p.sources = sources /\ p.clique = clique /\ p.pair2rel = pair2rel
    /\ l \in RelLines =>
           /\ p.exc = NoExc /\ p.kind = "relationship"
           /\ p.sources = sources /\ p.clique = clique /\ p.ixps = ixps

\* C5: whatever was consumed before, the loop body raises on a malformed line
\* (no shape and no '#'; a relationship line with a code other than -1 and
\* 0; a provenance record of the wrong kind, protocol, date or arity) and
\* changes no container; it skips a line of no shape that starts with '#',
\* changing no container; it hands a well-formed line to the parser of its
\* shape and changes no other container.  A line on which the body raises
\* ends construction there, with no table, the lines after it unread.
C5_MalformedIsFatal ==
    /\ [](pc = "loading" => \A l \in Lines : Verdict(l, iteration(l)))
    /\ [][/\ pc = "failed" => UNCHANGED vars
          /\ (pc = "loading" /\ exc' # NoExc /\ fd' = "open")
                 => (pc' = "failed" /\ UNCHANGED containers)
          /\ (pc = "loading" /\ pc' = "loading") => exc' = NoExc
         ]_vars

\* construction failed on a shapeless line after well-formed lines of every
\* kind had been consumed
C5_Witness ==
    /\ pc = "failed"
    /\ exc = "AssertionError:40"
    /\ sources # {}
    /\ clique # {}
    /\ nRel > 0

\* ----------------------------------------------------------------------- C6
\* C6 as claimed: whenever construction has ended, by returning or by
\* raising, the stream is closed.
C6_ClosedOnEveryExit == pc \in {"ready", "failed"} => fd = "closed"

\* ----------------------------------------------------------------------- C7
\* C7: after every line consumed and when construction returns, every stored
\* code is P2C or P2P (lookups change no container, C10); a lookup that finds
\* the pair returns -1, 0 or +1, and +1 only as the negation of a P2C stored
\* under the swapped key.
C7_StoredCodes ==
    /\ (pc = "loading" \/ (pc = "ready" /\ ret = NoRet)) =>
           \A p \in DOMAIN pair2rel : pair2rel[p] \in {P2C, P2P}
    /\ (ret.op # "none" /\ (Stored(ret.pair) \/ Stored(Swap(ret.pair))))
           => (ret.out.kind = "int" /\ ret.out.val \in {P2C, P2P, C2P})
    /\ (ret.op # "none" /\ ret.out = PyInt(C2P)
            /\ (Stored(ret.pair) \/ Stored(Swap(ret.pair))))
           => (/\ ~Stored(ret.pair)
               /\ Stored(Swap(ret.pair))
               /\ pair2rel[Swap(ret.pair)] = P2C)

\* a lookup returned C2P
C7_Witness ==
    /\ ret.op = "getitem"
    /\ ret.out = PyInt(C2P)
    /\ Stored(Swap(ret.pair))

\* ----------------------------------------------------------------------- C8
\* C8 as claimed: after loading, the mapping has as many entries as
\* relationship lines were consumed.
C8_OneEntryPerLine == pc = "ready" => Size = nRel

\* C8 as amended: the mapping has as many entries as relationship lines were
\* consumed, less the lines whose ordered pair had already been a key when
\* they were read (such a line overwrites the entry): one entry per distinct
\* ordered pair, and one per line only when no ordered pair repeats.
C8_OneEntryPerDistinctPair ==
    pc \in {"loading", "ready"} =>
        /\ Size = nRel - nDup
        /\ Size <= nRel
        /\ nDup = 0 => Size = nRel

\* a load succeeded on a feed that repeats an ordered pair
C8_Witness == pc = "ready" /\ nDup > 0 /\ Size < nRel

\* ----------------------------------------------------------------------- C9
Last(q) == q[Len(q)]

\* C9: the clique set is empty until a clique line is consumed and from then
\* on holds exactly the integers of the last clique line consumed, whatever
\* earlier clique lines listed; the same for the exchange-point lines and
\* set; consuming a second such line is no error.
C9_LastWriteWins ==
    pc \in {"loading", "ready"} =>
        /\ clique = IF cliqueLines = <<>> THEN {}
                    ELSE Members(Last(cliqueLines))
        /\ ixps = IF ixpsLines = <<>> THEN {}
                  ELSE Members(Last(ixpsLines))

\* a load succeeded on a feed with two different clique lines and two
\* different exchange-point lines
C9_Witness ==
    /\ pc = "ready"
    /\ Len(cliqueLines) >= 2
    /\ cliqueLines[1] # cliqueLines[2]
    /\ clique = Members(cliqueLines[2])

\* ---------------------------------------------------------------------- C10
Empty == sources = {} /\ clique = {} /\ ixps = {} /\ DOMAIN pair2rel = {}

\* C10 as claimed: the four containers start empty, every line consumed
\* leaves in each container all it held before, and no lookup changes a
\* container.
C10_AppendOnly ==
    /\ Empty
    /\ [][/\ pc = "loading" =>
                 /\ sources \subseteq sources'
                 /\ clique \subseteq clique'
                 /\ ixps \subseteq ixps'
                 /\ DOMAIN pair2rel \subseteq DOMAIN pair2rel'
          /\ pc = "ready" => UNCHANGED containers
         ]_vars

\* C10 as amended: the four containers start empty; every line consumed
\* leaves in the provenance set all its members and in the mapping all its
\* keys (a repeated pair may change a key's code); the clique set and the
\* exchange-point set are not append-only: each is either left as it was or
\* replaced by the members of the line just consumed; no lookup changes a
\* container.
C10_GrowOrReplace ==
    /\ Empty
    /\ [][/\ pc = "loading" =>
                 /\ sources \subseteq sources'
                 /\ DOMAIN pair2rel \subseteq DOMAIN pair2rel'
                 /\ clique' = clique
                        \/ (cliqueLines' # cliqueLines
                            /\ clique' = Members(Last(cliqueLines')))
                 /\ ixps' = ixps
                        \/ (ixpsLines' # ixpsLines
                            /\ ixps' = Members(Last(ixpsLines')))
          /\ pc = "ready" => UNCHANGED containers
         ]_vars

\* after a load that consumed two clique lines, a lookup has been made
C10_Witness ==
    /\ pc = "ready"
    /\ ret.op # "none"
    /\ sources # {}
    /\ Len(cliqueLines) = 2

====
